---------------------------- MODULE Spec2Model ----------------------------
(***************************************************************************)
(* Model of the sample-paper API (src/routes/paper_routes.py): the paper   *)
(* handlers over the document store (db.papers) and the redis cache, and   *)
(* the text-extraction flow (extract_text, process_Data, get_task_status)  *)
(* over db.Tasks.  Handlers are coroutines: each action is one run of a    *)
(* handler between two suspension points (an await on the store or on the  *)
(* extraction call).  The redis client is the blocking client, so a cache  *)
(* call never suspends.                                                    *)
(***************************************************************************)
EXTENDS Integers, Sequences, FiniteSets, TLC

VARIABLES
    papers,     \* db.papers: the set of stored documents, each with its _id
    cache,      \* redis: key -> serialized value (a partial function)
    hnd,        \* paper handlers suspended at an await: slot -> frame
    paperResp,  \* the last answer a paper handler gave, with its request
    nops,       \* paper requests issued so far
    tasks,      \* db.Tasks: task id -> stored document (a partial function)
    ext,        \* extract_text invocations: request -> handler frame
    wrk,        \* process_Data invocations: request -> worker frame
    taskResp,   \* the last envelope get_task_status returned (or NoResp)
    clock,      \* datetime.now(): the wall clock, which advances between uploads
    nuuid       \* number of uuid4() values drawn so far

paperVars == <<papers, cache, hnd, paperResp, nops>>

taskVars == <<tasks, ext, wrk, taskResp, clock>>

vars == <<papers, cache, hnd, paperResp, nops, tasks, ext, wrk, taskResp, clock, nuuid>>

---------------------------------------------------------------------------
(* Bounds *)

\* upload requests (POST /extract/text) the clients issue
MaxTasks == 2

Uploads == 1..MaxTasks

\* paper requests the clients issue
MaxOps == 4

\* paper handlers that may be suspended at an await at the same time
MaxInFlight == 2

Slots == 1..MaxInFlight

---------------------------------------------------------------------------
(* Python values that the pydantic validators tell apart *)

PyNone == [py |-> "None"]

PyStr(s) == [py |-> "str", v |-> s]

\* the one-key dict {k: v}
PyDict(k, v) == [py |-> "dict", key |-> k, v |-> v]

\* no answer given yet
NoResp == [op |-> "none", http |-> 0]

\* a frame that is not running
NoFrame == [pc |-> "none"]

\* f with the fields of g written over it ($set, dict.update)
Merge(f, g) ==
    [k \in (DOMAIN f) \cup (DOMAIN g) |-> IF k \in DOMAIN g THEN g[k] ELSE f[k]]

\* f without the keys in ks
Without(f, ks) == [k \in (DOMAIN f) \ ks |-> f[k]]

---------------------------------------------------------------------------
(* helper.CustomStandard.response and the HTTPException envelope *)

\* StandardResponse(code, status, message, data).model_dump()
Response(code, status, message, data) ==
    [code |-> code, status |-> status, message |-> message, data |-> data]

\* return JSONResponse(content=...): HTTP status 200 and the content as body
JsonResponse(content) == [http |-> 200, body |-> content]

\* raise HTTPException(status_code, detail): FastAPI answers with that HTTP
\* status and the body {"detail": detail}
HttpException(status_code, detail) ==
    [http |-> status_code, body |-> [detail |-> detail]]

\* an exception that no handler code catches: the server answers 500 with a
\* plain-text body
ServerError == [http |-> 500, body |-> [text |-> "Internal Server Error"]]

\* an answer as the client sees it: the request it answers and the response
Answer(op, req, resp) == [op |-> op, req |-> req] @@ resp

---------------------------------------------------------------------------
(* models.paper_model.Tasks *)

TaskFields == {"t_id", "task_status", "extract_data", "file_path", "file_type", "datetime"}

\* extract_data: Optional[str]: pydantic accepts None or a str, nothing else
TasksFieldsValid(kwargs) ==
    ("extract_data" \in DOMAIN kwargs)
        => kwargs["extract_data"].py \in {"None", "str"}

\* Tasks(**kwargs): the instance, or a ValidationError
TasksNew(kwargs, now) ==
    IF TasksFieldsValid(kwargs)
    THEN [ok |-> TRUE, set |-> kwargs, datetime |-> now]
    ELSE [ok |-> FALSE, error |-> "ValidationError"]

\* the value of field k of instance m: what was passed, else the default
TasksField(m, k) ==
    IF k \in DOMAIN m.set THEN m.set[k]
    ELSE IF k = "datetime" THEN m.datetime
    ELSE PyNone

\* a dump that forgets the exclude argument
TasksDumpExclude_All(m, ex) == [k \in TaskFields |-> TasksField(m, k)]

\* m.model_dump(exclude=ex)
TasksDumpExclude(m, ex) == [k \in TaskFields \ ex |-> TasksField(m, k)]

\* a dump without exclude_unset: every field, the defaults included
TasksDumpSet_All(m) == [k \in TaskFields |-> TasksField(m, k)]

\* m.model_dump(exclude_unset=True): the fields the caller passed
TasksDumpSet(m) == m.set

---------------------------------------------------------------------------
(* ai_models.ai_api_integration.geminiApi (not among the sources) *)

FileNames == {"notes.txt", "scan.pdf"}

\* store_file_in_local_dir(content, filename): the path the file was saved at
StoreFileInLocalDir(filename) == <<"uploads", filename>>

\* determine_file_type(filename)
DetermineFileType(filename) == IF filename = "scan.pdf" THEN "pdf" ELSE "text"

\* get_raw_data(file_path, file_type): returns the text, or raises
ExtractedTexts == {"lorem", "ipsum"}

ExtractionErrors == {"quota exceeded"}

GetRawDataOutcomes ==
    {[raised |-> FALSE, value |-> PyStr(t)] : t \in ExtractedTexts}
        \cup {[raised |-> TRUE, error |-> e] : e \in ExtractionErrors}

---------------------------------------------------------------------------
(* db.Tasks *)

\* db.Tasks.find_one({"t_id": id})
TasksFindOne(id) == IF id \in DOMAIN tasks THEN tasks[id] ELSE PyNone

\* db.Tasks.insert_one(doc)
TasksInsertOne(doc) == [i \in (DOMAIN tasks) \cup {doc.t_id} |->
                            IF i = doc.t_id THEN doc ELSE tasks[i]]

\* an update whose filter matches every task
TasksUpdateOne_Many(id, patch) ==
    [i \in DOMAIN tasks |-> Merge(tasks[i], patch)]

\* db.Tasks.update_one({"t_id": id}, {"$set": patch})
TasksUpdateOne(id, patch) ==
    [i \in DOMAIN tasks |-> IF i = id THEN Merge(tasks[i], patch) ELSE tasks[i]]

---------------------------------------------------------------------------
(* POST /extract/text *)

\* extract_text up to the await on insert_one: the uuid, the saved file, the
\* file type and the Tasks(...) document are local to the handler
ExtractTextStart(r, filename) ==
    /\ ext[r].pc = "none"
    /\ \A q \in Uploads : q < r => ext[q].pc # "none"
    /\ LET task_id == nuuid + 1
           file_path == StoreFileInLocalDir(filename)
           file_type == DetermineFileType(filename)
           m == TasksNew([t_id |-> task_id, task_status |-> "processing",
                          file_path |-> file_path, file_type |-> file_type], clock)
       IN  /\ m.ok
           /\ ext' = [ext EXCEPT ![r] =
                        [pc |-> "insert", task_id |-> task_id, file_path |-> file_path,
                         file_type |-> file_type,
                         doc |-> TasksDumpExclude(m, {"extract_data"})]]
    /\ nuuid' = nuuid + 1
    /\ clock' = clock + 1
    /\ UNCHANGED <<tasks, wrk, taskResp, paperVars>>

\* the store performs the insert
ExtractTextInsert(r) ==
    /\ ext[r].pc = "insert"
    /\ tasks' = TasksInsertOne(ext[r].doc)
    /\ ext' = [ext EXCEPT ![r].pc = "schedule"]
    /\ UNCHANGED <<wrk, taskResp, clock, nuuid, paperVars>>

\* the response extract_text returns
ExtractTextResponse(file_type, task_id) ==
    JsonResponse(Response(202, "processing", <<file_type, "extraction started">>,
                          [task_id |-> task_id]))

\* the handler resumes: background_tasks.add_task(process_Data, ...) and the
\* 202 response; the worker starts after the response is sent
ExtractTextRespond(r) ==
    /\ ext[r].pc = "schedule"
    /\ wrk' = [wrk EXCEPT ![r] =
                 [pc |-> "queued", task_id |-> ext[r].task_id,
                  file_path |-> ext[r].file_path, file_type |-> ext[r].file_type]]
    /\ ext' = [ext EXCEPT ![r] =
                 [pc |-> "responded",
                  task_id |-> ext[r].task_id,
                  resp |-> ExtractTextResponse(ext[r].file_type, ext[r].task_id)]]
    /\ UNCHANGED <<tasks, taskResp, clock, nuuid, paperVars>>

---------------------------------------------------------------------------
(* process_Data *)

\* the background task starts and awaits get_raw_data(file_path, file_type)
ProcessDataStart(r) ==
    /\ wrk[r].pc = "queued"
    /\ wrk' = [wrk EXCEPT ![r].pc = "extracting"]
    /\ UNCHANGED <<tasks, ext, taskResp, clock, nuuid, paperVars>>

\* a try body that writes a status outside the lifecycle
ProcessDataCompleted_Done(value, now) ==
    TasksNew([task_status |-> "done", extract_data |-> value], now)

\* the try body after get_raw_data returned value
ProcessDataCompleted(value, now) ==
    TasksNew([task_status |-> "completed", extract_data |-> value], now)

\* the except body for the exception e
ProcessDataFailed(e, now) ==
    TasksNew([task_status |-> "failed", extract_data |-> PyDict("error", e)], now)

\* the frame of the worker once get_raw_data ended with outcome o: the try
\* body builds the patch; any exception in it (the extraction's, or the
\* ValidationError of Tasks(...)) enters the except body, which builds the
\* failure patch; an exception raised there leaves process_Data
ProcessDataAfter(w, o, now) ==
    LET done == IF o.raised THEN [ok |-> FALSE] ELSE ProcessDataCompleted(o.value, now)
        cause == IF o.raised THEN o.error ELSE "ValidationError"
        failed == ProcessDataFailed(cause, now)
    IN  IF done.ok
        THEN [w EXCEPT !.pc = "writing"] @@ [patch |-> TasksDumpSet(done), outcome |-> o]
        ELSE IF failed.ok
        THEN [w EXCEPT !.pc = "writing"] @@ [patch |-> TasksDumpSet(failed), outcome |-> o]
        ELSE [w EXCEPT !.pc = "raised"] @@ [error |-> failed.error, outcome |-> o]

\* get_raw_data ends; the worker runs on to its await on update_one, or dies
ProcessDataExtracted(r, o) ==
    /\ wrk[r].pc = "extracting"
    /\ wrk' = [wrk EXCEPT ![r] = ProcessDataAfter(wrk[r], o, clock)]
    /\ UNCHANGED <<tasks, ext, taskResp, clock, nuuid, paperVars>>

\* the store performs the update_one; process_Data returns
ProcessDataWrite(r) ==
    /\ wrk[r].pc = "writing"
    /\ tasks' = TasksUpdateOne(wrk[r].task_id, wrk[r].patch)
    /\ wrk' = [wrk EXCEPT ![r].pc = "done"]
    /\ UNCHANGED <<ext, taskResp, clock, nuuid, paperVars>>

---------------------------------------------------------------------------
(* GET /tasks/{task_id} *)

\* what get_task_status answers when find_one returned task
GetTaskStatusResponse(task) ==
    IF task # PyNone
    THEN JsonResponse(Response(200, "success", "Task status retrieved",
                               [status |-> task["task_status"]]))
    ELSE HttpException(404, "Task not found")

\* a get_task_status that caches what it found, the way get_paper does
GetTaskStatus_Cached(task_id) ==
    /\ taskResp' = Answer("get_task_status", [task_id |-> task_id],
                           GetTaskStatusResponse(TasksFindOne(task_id)))
    /\ cache' = IF TasksFindOne(task_id) # PyNone
                THEN [k \in (DOMAIN cache) \cup {task_id} |->
                        IF k = task_id THEN <<"json", TasksFindOne(task_id)>>
                        ELSE cache[k]]
                ELSE cache
    /\ UNCHANGED <<tasks, ext, wrk, clock, nuuid, papers, hnd, paperResp, nops>>

\* get_task_status(task_id): one read of the store, then the answer
GetTaskStatus(task_id) ==
    /\ taskResp' = Answer("get_task_status", [task_id |-> task_id],
                           GetTaskStatusResponse(TasksFindOne(task_id)))
    /\ UNCHANGED <<tasks, ext, wrk, clock, nuuid, paperVars>>

---------------------------------------------------------------------------
(* models.paper_model.SamplePaper.  title stands for the plain fields       *)
(* (title, time, marks, params, tags, chapters, sections), which the        *)
(* handlers treat alike; type is the validated field.                       *)

SamplePaperFields == {"p_id", "title", "type"}

\* attributes every pydantic BaseModel instance has that are not fields
BaseModelAttrs == {"model_dump"}

\* validate_paper_type
ValidatePaperType(value) == value \in {"previous_year", "mock", "sample"}

\* SamplePaper(**kwargs): keys that are no field are ignored, p_id defaults
\* to None, the type validator runs
SamplePaperNew(kwargs) ==
    IF {"title", "type"} \subseteq DOMAIN kwargs /\ ValidatePaperType(kwargs["type"])
    THEN [ok |-> TRUE,
          fields |-> [k \in SamplePaperFields |->
                        IF k \in DOMAIN kwargs THEN kwargs[k] ELSE PyNone]]
    ELSE [ok |-> FALSE, error |-> "ValidationError"]

\* hasattr(current_paper, field)
HasAttr(field) == field \in SamplePaperFields \cup BaseModelAttrs

\* setattr(current_paper, field, value) raises for a name that is no field;
\* for a field it assigns with no validation (validate_assignment is off)
SetAttrRaises(field) == field \notin SamplePaperFields

\* the loop of update_paper over paper.items(): the fields after it, or the
\* ValueError of a setattr
SetAttrs(fields, patch) ==
    IF \E k \in DOMAIN patch : HasAttr(k) /\ SetAttrRaises(k)
    THEN [ok |-> FALSE, error |-> "ValueError"]
    ELSE [ok |-> TRUE,
          fields |-> [k \in DOMAIN fields |->
                        IF k \in DOMAIN patch THEN patch[k] ELSE fields[k]]]

\* current_paper.model_dump(): serialization validates nothing, so the
\* except ValueError clause of update_paper is never entered
ModelDump(fields) == [ok |-> TRUE, value |-> fields]

\* json.dumps / json.loads of a dict of strings
JsonDumps(d) == <<"json", d>>

JsonLoads(s) == s[2]

---------------------------------------------------------------------------
(* db.papers: documents in natural (insertion) order, which is _id order *)

Matching(p_id) == {d \in papers : d["p_id"] = p_id}

First(ds) == CHOOSE d \in ds : \A e \in ds : d["_id"] <= e["_id"]

\* db.papers.find_one({"p_id": p_id})
PapersFindOne(p_id) ==
    IF Matching(p_id) = {} THEN PyNone ELSE First(Matching(p_id))

\* db.papers.insert_one(doc): the store gives the document its _id
PapersInsertOne(doc, oid) == papers \cup {Merge([_id |-> oid], doc)}

\* an update that replaces the matched document by the patch (no "$set")
PapersUpdateOne_Replace(p_id, patch) ==
    IF Matching(p_id) = {} THEN papers
    ELSE (papers \ {First(Matching(p_id))})
            \cup {Merge([_id |-> First(Matching(p_id))["_id"]], patch)}

\* db.papers.update_one({"p_id": p_id}, {"$set": patch})
PapersUpdateOne(p_id, patch) ==
    IF Matching(p_id) = {} THEN papers
    ELSE (papers \ {First(Matching(p_id))})
            \cup {Merge(First(Matching(p_id)), patch)}

\* db.papers.delete_one({"p_id": p_id})
PapersDeleteOne(p_id) ==
    IF Matching(p_id) = {} THEN papers ELSE papers \ {First(Matching(p_id))}

\* result.deleted_count
DeletedCount(p_id) == IF Matching(p_id) = {} THEN 0 ELSE 1

---------------------------------------------------------------------------
(* redis_client *)

\* redis_client.get(key): the value, or None
RedisGet(key) == IF key \in DOMAIN cache THEN cache[key] ELSE PyNone

\* redis_client.set(key, value)
RedisSet(key, value) ==
    [k \in (DOMAIN cache) \cup {key} |-> IF k = key THEN value ELSE cache[k]]

\* redis_client.delete(key)
RedisDelete(key) == [k \in (DOMAIN cache) \ {key} |-> cache[k]]

---------------------------------------------------------------------------
(* What the clients send *)

\* identifiers a client may name: every one handed out, and one never issued
KnownIds == 0..nuuid

\* identifiers handed out so far
IssuedIds == 1..nuuid

Titles == {"Math Mid-Term"}

PaperTypes == {"mock", "essay"}

\* bodies of POST /paper
Payloads == {[title |-> t, type |-> y] : t \in Titles, y \in PaperTypes}

\* bodies of PUT /papers/{p_id}
Patches ==
    {[title |-> "Math Final"], [type |-> "sample"], [type |-> "essay"],
     [answer_key |-> "yes"], [model_dump |-> "x"]}
        \cup {[p_id |-> j] : j \in IssuedIds}

\* the query string of DELETE /papers/{p_id}: ?paper_id=j, or none (the path
\* of a DELETE names an identifier that was handed out)
NoQuery == [none |-> TRUE]

Queries == {[paper_id |-> j] : j \in KnownIds} \cup {NoQuery}

\* a request is taken while a slot is free, by the lowest free slot
FreeSlot(s) ==
    /\ hnd[s] = NoFrame
    /\ \A q \in Slots : q < s => hnd[q] # NoFrame

---------------------------------------------------------------------------
(* POST /paper *)

\* a uuid drawn once, when the module is loaded, and used for every paper
CreatePaperDoc_OneId(paper, uuid) == Merge(paper.fields, [p_id |-> 1])

\* create_paper(paper) after FastAPI validated the body as a SamplePaper:
\* the dict inserted and the response (insert_one is acknowledged, so
\* result.inserted_id is set)
CreatePaperDoc(paper, uuid) == Merge(paper.fields, [p_id |-> uuid])

CreatePaperResponse(paper_dict) ==
    JsonResponse(Response(200, "success", "Sample paper created successfully",
                          [paper_id |-> paper_dict["p_id"]]))

\* FastAPI rejects a body that is no SamplePaper with 422
RequestValidationError == [http |-> 422, body |-> [detail |-> "validation error"]]

CreatePaper(payload) ==
    /\ nops < MaxOps
    /\ nops' = nops + 1
    /\ LET paper == SamplePaperNew(payload)
       IN  IF paper.ok
           THEN /\ papers' = PapersInsertOne(CreatePaperDoc(paper, nuuid + 1), nuuid + 1)
                /\ nuuid' = nuuid + 1
                /\ paperResp' = Answer("create", [body |-> payload],
                                       CreatePaperResponse(CreatePaperDoc(paper, nuuid + 1)))
           ELSE /\ paperResp' = Answer("create", [body |-> payload], RequestValidationError)
                /\ UNCHANGED <<papers, nuuid>>
    /\ UNCHANGED <<cache, hnd, taskVars>>

---------------------------------------------------------------------------
(* GET /papers/{p_id} *)

\* a hit that returns the cached string without json.loads
GetPaperHitResponse_Raw(cached_paper) ==
    JsonResponse(Response(200, "success", "Paper retrieved from cache", cached_paper))

GetPaperHitResponse(cached_paper) ==
    JsonResponse(Response(200, "success", "Paper retrieved from cache",
                          JsonLoads(cached_paper)))

GetPaperStoreResponse(paper) ==
    JsonResponse(Response(200, "success", "Paper retrieved from database", paper))

\* the end of get_paper for what find_one returned, _id popped
GetPaperMissResponse(paper) ==
    IF paper # PyNone
    THEN GetPaperStoreResponse(Without(paper, {"_id"}))
    ELSE HttpException(404, "Paper not found")

\* get_paper(p_id) run with no other handler in between
GetPaperAnswer(p_id) ==
    IF RedisGet(p_id) # PyNone
    THEN GetPaperHitResponse(RedisGet(p_id))
    ELSE GetPaperMissResponse(PapersFindOne(p_id))

\* get_paper(p_id) up to its first return or await: the cache lookup
GetPaperStart(s, p_id) ==
    /\ FreeSlot(s)
    /\ nops < MaxOps
    /\ nops' = nops + 1
    /\ LET cached_paper == RedisGet(p_id)
       IN  IF cached_paper # PyNone
           THEN /\ paperResp' = Answer("get", [p_id |-> p_id],
                                       GetPaperHitResponse(cached_paper))
                /\ UNCHANGED hnd
           ELSE /\ hnd' = [hnd EXCEPT ![s] = [op |-> "get", pc |-> "find", p_id |-> p_id]]
                /\ UNCHANGED paperResp
    /\ UNCHANGED <<papers, cache, nuuid, taskVars>>

\* the store performs the find_one
GetPaperFind(s) ==
    /\ hnd[s].pc = "find"
    /\ hnd[s].op = "get"
    /\ hnd' = [hnd EXCEPT ![s] = [op |-> "get", pc |-> "found", p_id |-> hnd[s].p_id,
                                  paper |-> PapersFindOne(hnd[s].p_id)]]
    /\ UNCHANGED <<papers, cache, paperResp, nops, nuuid, taskVars>>

\* a fill that also caches the None of a record not found
GetPaperFill_Negative(p_id, paper) ==
    RedisSet(p_id, JsonDumps(IF paper # PyNone THEN Without(paper, {"_id"}) ELSE paper))

\* the cache after get_paper resumed with paper: filled only for a record
GetPaperFill(p_id, paper) ==
    IF paper # PyNone
    THEN RedisSet(p_id, JsonDumps(Without(paper, {"_id"})))
    ELSE cache

\* the handler resumes with paper: the cache fill and the response, or 404
GetPaperRespond(s) ==
    /\ hnd[s].pc = "found"
    /\ LET p_id == hnd[s].p_id
           paper == hnd[s].paper
       IN  /\ paperResp' = Answer("get", [p_id |-> p_id], GetPaperMissResponse(paper))
           /\ cache' = GetPaperFill(p_id, paper)
    /\ hnd' = [hnd EXCEPT ![s] = NoFrame]
    /\ UNCHANGED <<papers, nops, nuuid, taskVars>>

---------------------------------------------------------------------------
(* PUT /papers/{p_id} *)

\* update_paper between find_one and update_one, for the document found:
\* the dict to cache and return, or the exception that ends the handler
UpdatePaperMerge(existing_paper, patch) ==
    LET current_paper == SamplePaperNew(existing_paper)
        assigned == SetAttrs(current_paper.fields, patch)
        updated_paper == ModelDump(assigned.fields)
    IN  IF ~current_paper.ok THEN [ok |-> FALSE, resp |-> ServerError]
        ELSE IF ~assigned.ok THEN [ok |-> FALSE, resp |-> ServerError]
        ELSE IF ~updated_paper.ok
        THEN [ok |-> FALSE, resp |-> HttpException(422, "ValueError")]
        ELSE [ok |-> TRUE, value |-> updated_paper.value]

UpdatePaperResponse(updated_paper) ==
    JsonResponse(Response(200, "success", "Paper updated successfully", updated_paper))

\* update_paper(p_id, paper): the store performs the find_one and the handler
\* runs on to its await on update_one, or ends
UpdatePaperFind(s, p_id, patch) ==
    /\ FreeSlot(s)
    /\ nops < MaxOps
    /\ nops' = nops + 1
    /\ LET existing_paper == PapersFindOne(p_id)
           merged == UpdatePaperMerge(existing_paper, patch)
           req == [p_id |-> p_id, body |-> patch]
       IN  IF existing_paper = PyNone
           THEN /\ paperResp' = Answer("update", req, HttpException(404, "Paper not found"))
                /\ UNCHANGED hnd
           ELSE IF ~merged.ok
           THEN /\ paperResp' = Answer("update", req, merged.resp)
                /\ UNCHANGED hnd
           ELSE /\ hnd' = [hnd EXCEPT ![s] =
                             [op |-> "update", pc |-> "write", p_id |-> p_id,
                              patch |-> patch, updated_paper |-> merged.value]]
                /\ UNCHANGED paperResp
    /\ UNCHANGED <<papers, cache, nuuid, taskVars>>

\* the store performs the update_one
UpdatePaperWrite(s) ==
    /\ hnd[s].pc = "write"
    /\ papers' = PapersUpdateOne(hnd[s].p_id, hnd[s].patch)
    /\ hnd' = [hnd EXCEPT ![s].pc = "written"]
    /\ UNCHANGED <<cache, paperResp, nops, nuuid, taskVars>>

\* the handler resumes: the cache write and the response
UpdatePaperRespond(s) ==
    /\ hnd[s].pc = "written"
    /\ cache' = RedisSet(hnd[s].p_id, JsonDumps(hnd[s].updated_paper))
    /\ paperResp' = Answer("update", [p_id |-> hnd[s].p_id, body |-> hnd[s].patch],
                           UpdatePaperResponse(hnd[s].updated_paper))
    /\ hnd' = [hnd EXCEPT ![s] = NoFrame]
    /\ UNCHANGED <<papers, nops, nuuid, taskVars>>

---------------------------------------------------------------------------
(* DELETE /papers/{p_id} *)

\* the handler's parameter is named paper_id, not p_id: FastAPI takes it from
\* the query string, and the p_id of the path reaches no code
DeletePaperArg(path_p_id, query) ==
    IF "paper_id" \in DOMAIN query
    THEN [ok |-> TRUE, paper_id |-> query["paper_id"]]
    ELSE [ok |-> FALSE]

DeletePaperResponse ==
    JsonResponse(Response(200, "success", "Paper deleted successfully", PyNone))

\* delete_paper(paper_id): the store performs the delete_one; a request with
\* no paper_id in its query is answered 422 by FastAPI
DeletePaperStore(s, path_p_id, query) ==
    /\ FreeSlot(s)
    /\ nops < MaxOps
    /\ nops' = nops + 1
    /\ LET arg == DeletePaperArg(path_p_id, query)
           paper_id == arg.paper_id
           req == [p_id |-> path_p_id, query |-> query]
       IN  IF ~arg.ok
           THEN /\ paperResp' = Answer("delete", req, RequestValidationError)
                /\ UNCHANGED <<hnd, papers>>
           ELSE /\ papers' = PapersDeleteOne(paper_id)
                /\ hnd' = [hnd EXCEPT ![s] =
                             [op |-> "delete", pc |-> "deleted", req |-> req,
                              paper_id |-> paper_id,
                              deleted_count |-> DeletedCount(paper_id)]]
                /\ UNCHANGED paperResp
    /\ UNCHANGED <<cache, nuuid, taskVars>>

\* the handler resumes: 404, or the cache delete and the response
DeletePaperRespond(s) ==
    /\ hnd[s].pc = "deleted"
    /\ IF hnd[s].deleted_count = 0
       THEN /\ paperResp' = Answer("delete", hnd[s].req,
                                   HttpException(404, "Paper not found"))
            /\ UNCHANGED cache
       ELSE /\ cache' = RedisDelete(hnd[s].paper_id)
            /\ paperResp' = Answer("delete", hnd[s].req, DeletePaperResponse)
    /\ hnd' = [hnd EXCEPT ![s] = NoFrame]
    /\ UNCHANGED <<papers, nops, nuuid, taskVars>>

---------------------------------------------------------------------------
(* Specifications *)

Init ==
    /\ papers = {}
    /\ cache = <<>>
    /\ hnd = [s \in Slots |-> NoFrame]
    /\ paperResp = NoResp
    /\ nops = 0
    /\ tasks = <<>>
    /\ ext = [r \in Uploads |-> NoFrame]
    /\ wrk = [r \in Uploads |-> NoFrame]
    /\ taskResp = NoResp
    /\ clock = 0
    /\ nuuid = 0

\* the paper handlers
PaperNext ==
    \/ \E b \in Payloads : CreatePaper(b)
    \/ \E s \in Slots, id \in KnownIds : GetPaperStart(s, id)
    \/ \E s \in Slots : GetPaperFind(s)
    \/ \E s \in Slots : GetPaperRespond(s)
    \/ \E s \in Slots, id \in KnownIds, b \in Patches : UpdatePaperFind(s, id, b)
    \/ \E s \in Slots : UpdatePaperWrite(s)
    \/ \E s \in Slots : UpdatePaperRespond(s)
    \/ \E s \in Slots, id \in IssuedIds, q \in Queries : DeletePaperStore(s, id, q)
    \/ \E s \in Slots : DeletePaperRespond(s)

PaperSpec == Init /\ [][PaperNext]_vars

\* the extraction flow
TaskNext ==
    \/ \E r \in Uploads, f \in FileNames : ExtractTextStart(r, f)
    \/ \E r \in Uploads : ExtractTextInsert(r)
    \/ \E r \in Uploads : ExtractTextRespond(r)
    \/ \E r \in Uploads : ProcessDataStart(r)
    \/ \E r \in Uploads, o \in GetRawDataOutcomes : ProcessDataExtracted(r, o)
    \/ \E r \in Uploads : ProcessDataWrite(r)
    \/ \E id \in KnownIds : GetTaskStatus(id)

TaskSpec == Init /\ [][TaskNext]_vars

---------------------------------------------------------------------------
(* The extraction flow: lifecycle of a task *)

\* the worker of upload r has run to its end: it returned or it raised
WorkerEnded(r) == wrk[r].pc \in {"done", "raised"}

\* C1: whenever the extraction call of a worker raised and the worker has
\* ended, the stored task has status "failed" and its extract_data is the
\* object {"error": <the failure description>}.
C1_FailureRecorded ==
    \A r \in Uploads :
        (WorkerEnded(r) /\ wrk[r].outcome.raised)
            => LET task == tasks[wrk[r].task_id]
               IN  /\ task["task_status"] = "failed"
                   /\ "extract_data" \in DOMAIN task
                   /\ task["extract_data"] = PyDict("error", wrk[r].outcome.error)

\* C2: every accepted task whose worker has run to its end has left
\* "processing": it is "completed" or "failed", with its extract_data stored,
\* whether the extraction call returned or raised.
C2_WorkerEndsTerminal ==
    \A r \in Uploads :
        WorkerEnded(r)
            => LET task == tasks[wrk[r].task_id]
               IN  /\ task["task_status"] \in {"completed", "failed"}
                   /\ "extract_data" \in DOMAIN task

\* C3: a stored task's status is always processing, completed or failed; a
\* step changes it only from processing to completed or failed, so it changes
\* at most once and a terminal status stays; no step removes a task record.
C3_Lifecycle ==
    [][/\ \A id \in DOMAIN tasks' :
            tasks'[id]["task_status"] \in {"processing", "completed", "failed"}
       /\ \A id \in DOMAIN tasks :
            /\ id \in DOMAIN tasks'
            /\ tasks'[id]["task_status"] # tasks[id]["task_status"]
                  => /\ tasks[id]["task_status"] = "processing"
                     /\ tasks'[id]["task_status"] \in {"completed", "failed"}]_vars

\* a worker has made its one status write
C3_Witness ==
    \E r \in Uploads :
        /\ wrk[r].pc = "done"
        /\ tasks[wrk[r].task_id]["task_status"] = "completed"

\* C4: the task record is stored, in "processing" with file_path and
\* file_type set and no extract_data, before the worker is scheduled; the
\* handler answers the 202 envelope with the task id before the extraction
\* call starts; and from the answer until the worker's status write a
\* get_task_status of that id answers 200 with status "processing".
C4_AcceptedIsProcessing ==
    \A r \in Uploads :
        /\ ext[r].pc = "schedule"
              => /\ wrk[r].pc = "none"
                 /\ ext[r].task_id \in DOMAIN tasks
                 /\ LET task == tasks[ext[r].task_id]
                    IN  /\ task["task_status"] = "processing"
                        /\ task["file_path"] = ext[r].file_path
                        /\ task["file_type"] = ext[r].file_type
                        /\ "extract_data" \notin DOMAIN task
        /\ wrk[r].pc # "none"
              => /\ ext[r].pc = "responded"
                 /\ ext[r].resp.http = 200
                 /\ ext[r].resp.body.code = 202
                 /\ ext[r].resp.body.data = [task_id |-> wrk[r].task_id]
        /\ wrk[r].pc \in {"queued", "extracting", "writing", "raised"}
              => /\ wrk[r].task_id \in DOMAIN tasks
                 /\ "extract_data" \notin DOMAIN tasks[wrk[r].task_id]
                 /\ GetTaskStatusResponse(TasksFindOne(wrk[r].task_id))
                        = JsonResponse(Response(200, "success", "Task status retrieved",
                                                [status |-> "processing"]))

\* a client polled an accepted task while its extraction call was running
C4_Witness ==
    \E r \in Uploads :
        /\ ext[r].pc = "responded"
        /\ wrk[r].pc = "extracting"
        /\ taskResp.op = "get_task_status"
        /\ taskResp.req.task_id = ext[r].task_id
        /\ taskResp.http = 200
        /\ taskResp.body.data.status = "processing"

---------------------------------------------------------------------------
(* The paper handlers: store and cache *)

\* slot s answers in this step, ending a handler of kind op
Answers(s, op) == hnd[s].pc # "none" /\ hnd[s].op = op /\ hnd'[s] = NoFrame

\* the content cached under key k
Cached(k) == JsonLoads(cache[k])

\* C5: when update(id, patch) answers success, a get(id) made at once answers
\* 200 with content that has every field of the patch at the patch's value.
C5_WriteThrough ==
    [][\A s \in Slots, id \in KnownIds :
         (Answers(s, "update") /\ hnd[s].p_id = id /\ paperResp'.http = 200)
            => /\ GetPaperAnswer(id)'.http = 200
               /\ \A k \in DOMAIN hnd[s].patch :
                    /\ k \in DOMAIN GetPaperAnswer(id)'.body.data
                    /\ GetPaperAnswer(id)'.body.data[k] = hnd[s].patch[k]]_vars

\* C6: when delete(id) answers success, the store has no record for id, the
\* cache has no entry for id, and a get(id) made at once answers 404.
C6_DeleteRemovesBoth ==
    [][\A s \in Slots, id \in KnownIds :
         (Answers(s, "delete") /\ hnd[s].paper_id = id /\ paperResp'.http = 200)
            => /\ Matching(id)' = {}
               /\ id \notin DOMAIN cache'
               /\ GetPaperAnswer(id)'.http = 404]_vars

\* no handler that names id is suspended
Quiet(id) ==
    \A s \in Slots :
        \/ hnd[s] = NoFrame
        \/ hnd[s].op \in {"get", "update"} /\ hnd[s].p_id # id
        \/ hnd[s].op = "delete" /\ hnd[s].paper_id # id /\ hnd[s].req.p_id # id

\* C7: whenever no handler for id is in flight, the cache has no entry for
\* id or holds exactly the content of the store's record for id.
C7_Coherence ==
    \A id \in KnownIds :
        (Quiet(id) /\ id \in DOMAIN cache)
            => /\ Matching(id) # {}
               /\ Cached(id) = Without(PapersFindOne(id), {"_id"})

\* C8: no record in the store or in the cache has a type outside
\* {previous_year, mock, sample}, and an update whose patch names such a type
\* for a stored paper is answered 422.
C8_ValidateAfterMerge ==
    /\ \A d \in papers : d["type"] \in {"previous_year", "mock", "sample"}
    /\ \A k \in DOMAIN cache : Cached(k)["type"] \in {"previous_year", "mock", "sample"}
    /\ (/\ paperResp.op = "update"
        /\ paperResp.http # 404
        /\ "type" \in DOMAIN paperResp.req.body
        /\ paperResp.req.body["type"] \notin {"previous_year", "mock", "sample"})
            => paperResp.http = 422

\* C9: no step changes the identifier of a stored paper, and the content
\* cached under a key carries that key as its identifier.
C9_IdentifierImmutable ==
    [][/\ \A d \in papers : \A e \in papers' :
            e["_id"] = d["_id"] => e["p_id"] = d["p_id"]
       /\ \A k \in DOMAIN cache' : JsonLoads(cache'[k])["p_id"] = k]_vars

\* C10: a get(id) answers at once exactly when the cache holds id, then with
\* the cached content tagged as from the cache and with store and cache
\* unchanged; a get that missed reads the store after its cache lookup, and
\* when it found a record it writes that record under id into the cache and
\* answers it tagged as from the database, the store and the other cache
\* entries unchanged.
C10_ReadThrough ==
    [][/\ (nops' = nops + 1 /\ hnd' = hnd /\ paperResp'.op = "get")
            => LET id == paperResp'.req.p_id
               IN  /\ id \in DOMAIN cache
                   /\ paperResp'.http = 200
                   /\ paperResp'.body = Response(200, "success",
                                                 "Paper retrieved from cache", Cached(id))
                   /\ cache' = cache
                   /\ papers' = papers
       /\ \A s \in Slots :
            /\ (hnd[s] = NoFrame /\ hnd'[s].pc # "none" /\ hnd'[s].op = "get")
                  => /\ hnd'[s].p_id \notin DOMAIN cache
                     /\ cache' = cache
                     /\ papers' = papers
            /\ (hnd[s].pc = "find" /\ hnd'[s].pc = "found")
                  => /\ hnd'[s].paper \in
                            (IF Matching(hnd[s].p_id) = {} THEN {PyNone}
                             ELSE Matching(hnd[s].p_id))
                     /\ cache' = cache
                     /\ papers' = papers
            /\ (Answers(s, "get") /\ hnd[s].paper # PyNone)
                  => /\ DOMAIN cache' = (DOMAIN cache) \cup {hnd[s].p_id}
                     /\ JsonLoads(cache'[hnd[s].p_id]) = Without(hnd[s].paper, {"_id"})
                     /\ \A k \in (DOMAIN cache) \ {hnd[s].p_id} : cache'[k] = cache[k]
                     /\ papers' = papers
                     /\ paperResp'.http = 200
                     /\ paperResp'.body = Response(200, "success",
                                            "Paper retrieved from database",
                                            Without(hnd[s].paper, {"_id"}))]_vars

\* a get filled the cache from the store and a later get was served from it
C10_Witness ==
    /\ paperResp.op = "get"
    /\ paperResp.http = 200
    /\ paperResp.body.message = "Paper retrieved from cache"
    /\ paperResp.req.p_id \in DOMAIN cache
    /\ Matching(paperResp.req.p_id) # {}
    /\ "_id" \notin DOMAIN paperResp.body.data

---------------------------------------------------------------------------
(* The paper handlers: absence, repetition, round trip *)

\* C11: a get whose store read found no record answers 404 and leaves the
\* cache and the store as they were; in every state a get of an id that is in
\* neither answers 404; and no step leaves a cache entry that stands for
\* "no record" (every cached value decodes to a record, never to None).
C11_NoNegativeCaching ==
    [][/\ \A s \in Slots :
            (Answers(s, "get") /\ hnd[s].paper = PyNone)
                => /\ paperResp'.op = "get"
                   /\ paperResp'.http = 404
                   /\ cache' = cache
                   /\ papers' = papers
       /\ \A id \in KnownIds :
            (id \notin DOMAIN cache /\ Matching(id) = {})
                => GetPaperAnswer(id).http = 404
       /\ \A k \in DOMAIN cache' :
            /\ JsonLoads(cache'[k]) # PyNone
            /\ SamplePaperFields \subseteq DOMAIN JsonLoads(cache'[k])]_vars

\* a get of a paper that was created and deleted was answered 404, and the
\* cache has no entry for it
C11_Witness ==
    /\ paperResp.op = "get"
    /\ paperResp.http = 404
    /\ paperResp.req.p_id \in IssuedIds
    /\ paperResp.req.p_id \notin DOMAIN cache
    /\ Matching(paperResp.req.p_id) = {}

\* this step is a step of an update or delete handler that names id, in its
\* path or in its argument
WritesTo(id) ==
    \/ \E s \in Slots :
          /\ hnd'[s] # hnd[s]
          /\ LET f == IF hnd[s] # NoFrame THEN hnd[s] ELSE hnd'[s]
             IN  \/ f.op = "update" /\ f.p_id = id
                 \/ f.op = "delete" /\ (f.paper_id = id \/ f.req.p_id = id)
    \/ /\ nops' = nops + 1
       /\ hnd' = hnd
       /\ paperResp'.op \in {"update", "delete"}
       /\ paperResp'.req.p_id = id

\* C12: when the last answer given was a successful get(id) with content c,
\* then after any step that is no step of an update or delete of id, a
\* get(id) made at once is served from the cache with content c.
C12_ReadIdempotent ==
    [][\A id \in KnownIds :
         (/\ paperResp.op = "get"
          /\ paperResp.http = 200
          /\ paperResp.req.p_id = id
          /\ ~WritesTo(id))
            => /\ id \in DOMAIN cache'
               /\ GetPaperAnswer(id)' =
                     GetPaperHitResponse(JsonDumps(paperResp.body.data))]_vars

\* C13: a create of a valid payload P answers code 200 with an identifier
\* that no stored record and no cache key had; it adds exactly one record to
\* the store, equal to P apart from that identifier, and leaves the cache
\* as it was; a get of the identifier made at once answers 200 with content
\* equal to P in every field but the identifier.
C13_CreateGetRoundTrip ==
    [][/\ (nops' = nops + 1 /\ hnd' = hnd /\ paperResp'.op = "create"
            /\ SamplePaperNew(paperResp'.req.body).ok)
            => /\ paperResp'.http = 200
               /\ paperResp'.body.code = 200
       /\ \A id \in 1..(nuuid + 1) :
            (/\ nops' = nops + 1
             /\ hnd' = hnd
             /\ paperResp'.op = "create"
             /\ paperResp'.http = 200
             /\ paperResp'.body.data.paper_id = id)
                => LET P == paperResp'.req.body
                   IN  /\ Matching(id) = {}
                       /\ id \notin DOMAIN cache
                       /\ cache' = cache
                       /\ \E d \in papers' :
                            /\ d \notin papers
                            /\ papers' = papers \cup {d}
                            /\ d["p_id"] = id
                            /\ Without(d, {"_id", "p_id"}) = P
                       /\ GetPaperAnswer(id)'.http = 200
                       /\ Without(GetPaperAnswer(id)'.body.data, {"p_id"}) = P]_vars

\* a paper was created and then read back from the store, equal to its
\* payload apart from the identifier
C13_Witness ==
    /\ paperResp.op = "get"
    /\ paperResp.http = 200
    /\ paperResp.body.message = "Paper retrieved from database"
    /\ paperResp.req.p_id \in IssuedIds
    /\ paperResp.body.data["p_id"] = paperResp.req.p_id
    /\ Without(paperResp.body.data, {"p_id"}) \in Payloads

---------------------------------------------------------------------------
(* The response envelope *)

\* a response body of the shape {code, status, message, data}
IsEnvelope(body) == DOMAIN body = {"code", "status", "message", "data"}

\* the request never reached the handler: FastAPI rejected it
RejectedBody(resp) == resp.http = 422 /\ resp.body = RequestValidationError.body

\* C14: every answer a handler has given (create, get, update and delete of
\* a paper, start-extraction, get-task-status), success or failure, has a
\* body of the shape {code, status, message, data}.
C14_UniformEnvelope ==
    /\ (paperResp.op # "none" /\ ~RejectedBody(paperResp))
          => IsEnvelope(paperResp.body)
    /\ taskResp.op # "none" => IsEnvelope(taskResp.body)
    /\ \A r \in Uploads : ext[r].pc = "responded" => IsEnvelope(ext[r].resp.body)

---------------------------------------------------------------------------
(* PUT /papers/{p_id}: frame and outcomes *)

\* C15: the store write of an update(id, patch) changes nothing but the
\* first record stored under id: in that record every field the patch names
\* gets the patch's value and every other field keeps its value; all other
\* records stay as they are (and with no record under id the store stays as
\* it is); the other steps of the handler, its answer included, leave the
\* store alone.
C15_MergePatchFrame ==
    [][\A s \in Slots :
         /\ (hnd[s].pc = "write" /\ hnd'[s].pc = "written")
               => LET id == hnd[s].p_id
                      patch == hnd[s].patch
                  IN  IF Matching(id) = {}
                      THEN papers' = papers
                      ELSE \E d \in Matching(id) : \E e \in papers' :
                             /\ \A o \in Matching(id) : d["_id"] <= o["_id"]
                             /\ papers' \ {e} = papers \ {d}
                             /\ DOMAIN e = (DOMAIN d) \cup (DOMAIN patch)
                             /\ \A k \in DOMAIN patch : e[k] = patch[k]
                             /\ \A k \in (DOMAIN d) \ (DOMAIN patch) : e[k] = d[k]
         /\ (hnd[s] = NoFrame /\ hnd'[s].pc = "write")
               => papers' = papers
         /\ Answers(s, "update") => papers' = papers
         /\ (nops' = nops + 1 /\ hnd' = hnd /\ paperResp'.op = "update")
               => papers' = papers]_vars

\* an update of a stored paper was answered 200, and the stored record has
\* the patch's field at the patch's value and its other fields as created
C15_Witness ==
    /\ paperResp.op = "update"
    /\ paperResp.http = 200
    /\ "title" \in DOMAIN paperResp.req.body
    /\ \E d \in Matching(paperResp.req.p_id) :
          /\ d["title"] = paperResp.req.body["title"]
          /\ d["type"] = "mock"

\* C16: an update ends in 404, 422 or 200 and in nothing else: 404 exactly
\* when the store has no record under id, and then with store and cache
\* unchanged; 422 only for a stored record; 200 only with a merged record
\* whose type is valid.
C16_ClosedOutcomes ==
    [][/\ (nops' = nops + 1 /\ hnd' = hnd /\ paperResp'.op = "update")
            => /\ paperResp'.http \in {404, 422}
               /\ (paperResp'.http = 404) <=> (Matching(paperResp'.req.p_id) = {})
               /\ papers' = papers
               /\ cache' = cache
       /\ \A s \in Slots :
            Answers(s, "update")
                => /\ paperResp'.http = 200
                   /\ ValidatePaperType(hnd[s].updated_paper["type"])]_vars

---------------------------------------------------------------------------
(* DELETE /papers/{p_id}: the identifier acted on *)

\* C19: a delete acts on the identifier of its path: every delete request
\* reaches the store; what the store step removes is one record stored
\* under the path identifier, when there is one, and nothing otherwise; the
\* handler answers 404 exactly when there was none, and otherwise answers
\* 200 after removing the cache entry of the path identifier and no other.
C19_DeleteByPath ==
    [][/\ (nops' = nops + 1 /\ hnd' = hnd) => paperResp'.op # "delete"
       /\ \A s \in Slots :
            /\ (hnd[s] = NoFrame /\ hnd'[s].pc = "deleted")
                  => LET id == hnd'[s].req.p_id
                     IN  /\ papers' \subseteq papers
                         /\ (papers \ papers') \subseteq Matching(id)
                         /\ (Matching(id) # {}) <=> (papers' # papers)
                         /\ (hnd'[s].deleted_count = 0) <=> (Matching(id) = {})
            /\ Answers(s, "delete")
                  => LET id == hnd[s].req.p_id
                     IN  /\ (paperResp'.http = 404) <=> (hnd[s].deleted_count = 0)
                         /\ paperResp'.http \in {200, 404}
                         /\ paperResp'.http = 404 => cache' = cache
                         /\ paperResp'.http = 200
                               => /\ DOMAIN cache' = (DOMAIN cache) \ {id}
                                  /\ \A k \in DOMAIN cache' : cache'[k] = cache[k]]_vars

---------------------------------------------------------------------------
(* The extraction flow: cache, isolation, frame of the terminal write *)

\* C17: no step of start-extraction, of the worker or of get-task-status
\* changes the cache; no cache key is a task identifier and no cached value
\* has a field of a task record.
C17_CacheHoldsPapersOnly ==
    [][/\ cache' = cache
       /\ \A k \in DOMAIN cache' :
            /\ k \notin DOMAIN tasks'
            /\ (DOMAIN JsonLoads(cache'[k])) \cap TaskFields = {}]_vars

\* a task ran to completion and was polled, and the cache is empty
C17_Witness ==
    /\ cache = <<>>
    /\ taskResp.op = "get_task_status"
    /\ taskResp.http = 200
    /\ taskResp.body.data.status = "completed"
    /\ \E r \in Uploads : wrk[r].pc = "done" /\ wrk[r].task_id = taskResp.req.task_id

\* C18: a worker carries the task identifier its request was accepted with;
\* its store write changes the record of that identifier and no other, and
\* its other steps change no record; once a worker has ended, the status and
\* extracted data of its task are those of its own extraction call: the
\* returned text with "completed", and the same for any two workers whose
\* calls ended alike.
C18_WorkerIsolation ==
    [][/\ \A r \in Uploads :
            /\ wrk'[r].pc # "none" => wrk'[r].task_id = ext'[r].task_id
            /\ (wrk'[r] # wrk[r])
                  => /\ DOMAIN tasks' = DOMAIN tasks
                     /\ \A id \in (DOMAIN tasks) \ {wrk'[r].task_id} :
                          tasks'[id] = tasks[id]
                     /\ wrk'[r].pc # "done" => tasks' = tasks
            /\ (WorkerEnded(r)' /\ ~wrk'[r].outcome.raised)
                  => /\ tasks'[wrk'[r].task_id]["task_status"] = "completed"
                     /\ tasks'[wrk'[r].task_id]["extract_data"] = wrk'[r].outcome.value
       /\ \A r \in Uploads, q \in Uploads :
            (WorkerEnded(r)' /\ WorkerEnded(q)' /\ wrk'[r].outcome = wrk'[q].outcome)
                => LET t == tasks'[wrk'[r].task_id]
                       u == tasks'[wrk'[q].task_id]
                   IN  /\ t["task_status"] = u["task_status"]
                       /\ Without(t, TaskFields \ {"extract_data"})
                             = Without(u, TaskFields \ {"extract_data"})]_vars

\* two workers ran side by side, their calls returned different texts, and
\* each task holds its own
C18_Witness ==
    \E r \in Uploads, q \in Uploads :
        /\ wrk[r].pc = "done"
        /\ wrk[q].pc = "writing"
        /\ ~wrk[q].outcome.raised
        /\ wrk[q].outcome # wrk[r].outcome
        /\ tasks[wrk[r].task_id]["extract_data"] = wrk[r].outcome.value
        /\ tasks[wrk[q].task_id]["task_status"] = "processing"

\* C20: no step changes the identifier, file_path, file_type or creation
\* timestamp of a stored task; the worker's write changes no field but
\* task_status and extract_data; and once a worker has written, its task
\* has the identifier, path and type the request was accepted with.
C20_TerminalWriteFrame ==
    [][/\ \A id \in DOMAIN tasks :
            /\ id \in DOMAIN tasks'
            /\ \A k \in (DOMAIN tasks[id]) \ {"task_status", "extract_data"} :
                  /\ k \in DOMAIN tasks'[id]
                  /\ tasks'[id][k] = tasks[id][k]
            /\ (DOMAIN tasks'[id]) \ (DOMAIN tasks[id]) \subseteq {"extract_data"}
       /\ \A r \in Uploads :
            wrk'[r].pc = "done"
                => LET t == tasks'[wrk'[r].task_id]
                   IN  /\ t["t_id"] = wrk'[r].task_id
                       /\ t["file_path"] = wrk'[r].file_path
                       /\ t["file_type"] = wrk'[r].file_type]_vars

\* the worker of an upload made its write after a later upload was accepted
\* (the clock had moved on), and the task still has its creation timestamp
C20_Witness ==
    \E r \in Uploads :
        /\ wrk[r].pc = "done"
        /\ tasks[wrk[r].task_id]["task_status"] = "completed"
        /\ tasks[wrk[r].task_id]["datetime"] + 1 < clock

=============================================================================
